---- MODULE Spec2Model ----
(***************************************************************************)
(* Model of internal/sheets (sheets.go): the query builders Insert, Delete *)
(* and Sort, the column schema stored as the first row of a sheet, and the *)
(* snapshot transaction Client.WithSnapshot, over a model of the           *)
(* spreadsheet backend (sheets addressed by id and by title, value reads   *)
(* and writes, all-or-nothing batches of structural requests).             *)
(*                                                                         *)
(* One process (the daemon is single-threaded) runs one WithSnapshot call  *)
(* from any spreadsheet an earlier call can have left behind; the callback *)
(* is any sequence of operations on the snapshot followed by a return of   *)
(* nil or of an error (Spec).  In SpecQuery the same process calls the     *)
(* query builders, loadSchema and formatCellData on the client directly.   *)
(***************************************************************************)
EXTENDS Integers, Sequences, FiniteSets, TLC

\* ------------------------------------------------------------------ bounds
MaxSheetId == 2      \* sheet ids are 0..MaxSheetId (stands for rand.Int31's range)
MaxDataRows == 2     \* most data rows kept in a sheet
MaxBodyOps == 3      \* most operations one callback issues
MaxCalls == 2        \* most calls made on the client directly
MaxIters == 2        \* most iterations of the poll loop

\* ------------------------------------------------------------- value sets
SheetIds == 0..MaxSheetId
\* column names are "A" and "B", plain string values of a row "x" and "y"
Nil == "<nil>"                      \* Go's nil interface value / JSON null
Empty == ""                         \* a cell without a value
SheetNames == {"S", "Missing"}      \* sheet names a caller passes to WithSnapshot
TempNames == {"tmpP"}               \* results of randString(16)
NotFound == 0 - 1
NonString == "<number>"             \* a cell value of a read that is not a string

NoErr == "nil"
ErrUnknownSheet == "Unknown sheet"
ErrMismatch == "Mismatched numbers of values and fields"
ErrMapColumns == "Failed to map columns"
ErrCorrupt == "Expected exactly one row"
ErrNotStrings == "Values should be strings"
ErrBody == "body error"
\* errors of the backend calls, one per call site
ErrFind == "backend: spreadsheets.get failed"
ErrLoad == "backend: values.get failed"
ErrPut == "backend: values.update failed"
ErrAppend == "backend: appendCells batch failed"
ErrClear == "backend: values.clear failed"
ErrSort == "backend: sortRange batch failed"
ErrCreate == "backend: duplicateSheet batch failed"
ErrCommit == "backend: commit batch failed"
ErrRollback == "backend: rollback batch failed"

\* ----------------------------------------------------------- seq helpers
Max(a, b) == IF a >= b THEN a ELSE b

\* a row of the grid without its trailing empty cells
RECURSIVE TrimRow(_)
TrimRow(row) ==
    IF row = <<>> THEN <<>>
    ELSE IF row[Len(row)] = Empty THEN TrimRow(SubSeq(row, 1, Len(row) - 1))
    ELSE row

\* the rows of the grid without its trailing empty rows
RECURSIVE TrimRows(_)
TrimRows(rows) ==
    IF rows = <<>> THEN <<>>
    ELSE IF rows[Len(rows)] = <<>> THEN TrimRows(SubSeq(rows, 1, Len(rows) - 1))
    ELSE rows

CellAt(row, i) == IF i >= 0 /\ i + 1 <= Len(row) THEN row[i + 1] ELSE Empty

\* ---------------------------------------------------------------- backend
\* The spreadsheet: every sheet id either names no sheet or a sheet with a
\* title, a hidden flag and a grid of cell values.  rows[1] is row 1 of the
\* grid (the header row); rows are kept without trailing empty cells and the
\* grid without trailing empty rows.
NoSheet == [exists |-> FALSE, title |-> "", hidden |-> FALSE, rows |-> <<>>]

MkSheet(title, hidden, rows) ==
    [exists |-> TRUE, title |-> title, hidden |-> hidden, rows |-> rows]

Titles(sh) == {sh[i].title : i \in {j \in SheetIds : sh[j].exists}}

\* mutant of findSheetId: the zero id of the error return is used as an id
findSheetIdZero(sh, sheet) ==
    IF \E i \in SheetIds : sh[i].exists /\ sh[i].title = sheet
    THEN CHOOSE i \in SheetIds : sh[i].exists /\ sh[i].title = sheet
    ELSE 0

\* Spreadsheets.Get(table).Fields("sheets") followed by the title loop
findSheetId(sh, sheet) ==
    IF \E i \in SheetIds : sh[i].exists /\ sh[i].title = sheet
    THEN CHOOSE i \in SheetIds : sh[i].exists /\ sh[i].title = sheet
    ELSE NotFound

\* requests of a batchUpdate
ReqDuplicate(src, newId, newName) ==
    [op |-> "duplicateSheet", id |-> newId, src |-> src, name |-> newName, rows |-> <<>>, specs |-> <<>>]
ReqHide(id) ==
    [op |-> "hide", id |-> id, src |-> NotFound, name |-> "", rows |-> <<>>, specs |-> <<>>]
ReqDeleteRange(id) ==
    [op |-> "deleteRange", id |-> id, src |-> NotFound, name |-> "", rows |-> <<>>, specs |-> <<>>]
ReqCopyPaste(src, dst) ==
    [op |-> "copyPaste", id |-> dst, src |-> src, name |-> "", rows |-> <<>>, specs |-> <<>>]
ReqDeleteSheet(id) ==
    [op |-> "deleteSheet", id |-> id, src |-> NotFound, name |-> "", rows |-> <<>>, specs |-> <<>>]
ReqAppendCells(id, rows) ==
    [op |-> "appendCells", id |-> id, src |-> NotFound, name |-> "", rows |-> rows, specs |-> <<>>]
ReqSortRange(id, specs) ==
    [op |-> "sortRange", id |-> id, src |-> NotFound, name |-> "", rows |-> <<>>, specs |-> specs]

Known(sh, id) == id \in SheetIds /\ sh[id].exists

\* order of cell values under an ascending sort: empty cells come last
Rank(c) == IF c = "x" THEN 1 ELSE IF c = "y" THEN 2 ELSE IF c = Empty THEN 4 ELSE 3

\* row a sorts strictly before row b under the sort specs (column indices,
\* first one primary)
RECURSIVE RowLess(_, _, _)
RowLess(a, b, specs) ==
    IF specs = <<>> THEN FALSE
    ELSE LET ka == Rank(CellAt(a, Head(specs)))
             kb == Rank(CellAt(b, Head(specs)))
         IN IF ka < kb THEN TRUE
            ELSE IF ka > kb THEN FALSE
            ELSE RowLess(a, b, Tail(specs))

\* insert row r into the sorted sequence, after the rows it does not precede
RECURSIVE InsertSorted(_, _, _)
InsertSorted(sorted, r, specs) ==
    IF sorted = <<>> THEN <<r>>
    ELSE IF RowLess(r, Head(sorted), specs) THEN <<r>> \o sorted
    ELSE <<Head(sorted)>> \o InsertSorted(Tail(sorted), r, specs)

\* stable ascending sort of rows by the specs
RECURSIVE SortRows(_, _)
SortRows(rows, specs) ==
    IF rows = <<>> THEN <<>>
    ELSE InsertSorted(SortRows(SubSeq(rows, 1, Len(rows) - 1), specs), rows[Len(rows)], specs)

\* mutant of SortGrid: the range starts at row index 0
SortGridFromRow0(rows, specs) == TrimRows(SortRows(rows, specs))

\* the grid after a sortRange with StartRowIndex 1: row 1 stays
SortGrid(rows, specs) ==
    IF Len(rows) <= 1 THEN rows
    ELSE TrimRows(<<rows[1]>> \o SortRows(SubSeq(rows, 2, Len(rows)), specs))

\* one request applied to the spreadsheet; ok = FALSE when the backend
\* rejects it
ApplyRequest(sh, r) ==
    CASE r.op = "duplicateSheet" ->
           IF Known(sh, r.src) /\ r.id \in SheetIds /\ ~sh[r.id].exists /\ r.name \notin Titles(sh)
           THEN [ok |-> TRUE,
                 sheets |-> [sh EXCEPT ![r.id] = MkSheet(r.name, sh[r.src].hidden, sh[r.src].rows)]]
           ELSE [ok |-> FALSE, sheets |-> sh]
      [] r.op = "hide" ->
           IF Known(sh, r.id)
           THEN [ok |-> TRUE, sheets |-> [sh EXCEPT ![r.id].hidden = TRUE]]
           ELSE [ok |-> FALSE, sheets |-> sh]
      [] r.op = "deleteRange" ->
           IF Known(sh, r.id)
           THEN [ok |-> TRUE, sheets |-> [sh EXCEPT ![r.id].rows = <<>>]]
           ELSE [ok |-> FALSE, sheets |-> sh]
      [] r.op = "copyPaste" ->
           IF Known(sh, r.id) /\ Known(sh, r.src)
           THEN [ok |-> TRUE, sheets |-> [sh EXCEPT ![r.id].rows = sh[r.src].rows]]
           ELSE [ok |-> FALSE, sheets |-> sh]
      [] r.op = "deleteSheet" ->
           IF Known(sh, r.id)
           THEN [ok |-> TRUE, sheets |-> [sh EXCEPT ![r.id] = NoSheet]]
           ELSE [ok |-> FALSE, sheets |-> sh]
      [] r.op = "appendCells" ->
           IF Known(sh, r.id)
           THEN [ok |-> TRUE,
                 sheets |-> [sh EXCEPT ![r.id].rows =
                     TrimRows(sh[r.id].rows \o [k \in 1..Len(r.rows) |-> TrimRow(r.rows[k])])]]
           ELSE [ok |-> FALSE, sheets |-> sh]
      [] r.op = "sortRange" ->
           IF Known(sh, r.id)
           THEN [ok |-> TRUE, sheets |-> [sh EXCEPT ![r.id].rows = SortGrid(sh[r.id].rows, r.specs)]]
           ELSE [ok |-> FALSE, sheets |-> sh]

\* the requests applied one after the other, as far as they are accepted
RECURSIVE ApplyAll(_, _)
ApplyAll(sh, reqs) ==
    IF reqs = <<>> THEN [ok |-> TRUE, sheets |-> sh]
    ELSE LET first == ApplyRequest(sh, Head(reqs))
         IN IF first.ok THEN ApplyAll(first.sheets, Tail(reqs))
            ELSE [ok |-> FALSE, sheets |-> sh]

\* spreadsheets.batchUpdate: all requests are applied, or none is
BatchUpdate(sh, reqs) ==
    LET res == ApplyAll(sh, reqs)
    IN IF res.ok THEN res ELSE [ok |-> FALSE, sheets |-> sh]

\* spreadsheets.values.get of "<sheet>!1:1": the rows of the answer
ValuesGetFirstRow(sh, id) ==
    IF sh[id].rows = <<>> \/ sh[id].rows[1] = <<>> THEN <<>> ELSE <<sh[id].rows[1]>>

\* a row written over an old one from column A on: null cells are skipped
OverlayRow(old, new) ==
    TrimRow([i \in 1..Max(Len(old), Len(new)) |->
                IF i <= Len(new) /\ new[i] # Nil THEN new[i] ELSE CellAt(old, i - 1)])

\* spreadsheets.values.update of range "<sheet>" with one row of RAW values
ValuesUpdate(sh, id, row) ==
    LET old == sh[id].rows
        first == OverlayRow(IF old = <<>> THEN <<>> ELSE old[1], row)
    IN [sh EXCEPT ![id].rows = TrimRows(<<first>> \o (IF old = <<>> THEN <<>> ELSE Tail(old)))]

\* mutant of ValuesClear: row 1 is kept
ValuesClearDataOnly(sh, id) ==
    [sh EXCEPT ![id].rows = IF sh[id].rows = <<>> THEN <<>> ELSE <<sh[id].rows[1]>>]

\* spreadsheets.values.clear of range "<sheet>"
ValuesClear(sh, id) == [sh EXCEPT ![id].rows = <<>>]

\* ------------------------------------------------------- column mapping
\* columnMapping: numColumns and the map columnToIndex (0-based indices);
\* nil = TRUE stands for the nil *columnMapping
NilMapping == [nil |-> TRUE, numColumns |-> 0, columnToIndex |-> [n \in {} |-> 0]]

\* the map built by the loop  columnToIndex[name] = i; numColumns++  over
\* a list of names (a later occurrence of a name overwrites an earlier one)
MappingOfList(list) ==
    [nil |-> FALSE,
     numColumns |-> Len(list),
     columnToIndex |-> [n \in {list[i] : i \in 1..Len(list)} |->
         (CHOOSE i \in 1..Len(list) :
             list[i] = n /\ \A j \in 1..Len(list) : list[j] = n => j <= i) - 1]]

newMappingFromFields(fields) == MappingOfList(fields)

\* values: the rows of a ValueRange; a cell that is not a string fails the
\* type assertion
newMappingFromValueRange(values) ==
    IF Len(values) # 1 THEN [err |-> ErrCorrupt, mapping |-> NilMapping]
    ELSE IF \E k \in 1..Len(values[1]) : values[1][k] = NonString
    THEN [err |-> ErrNotStrings, mapping |-> NilMapping]
    ELSE [err |-> NoErr, mapping |-> MappingOfList(values[1])]

\* columnMapping.add: the mapping afterwards
add(m, field) ==
    IF field \in DOMAIN m.columnToIndex THEN m
    ELSE [nil |-> FALSE,
          numColumns |-> m.numColumns + 1,
          columnToIndex |-> [n \in DOMAIN m.columnToIndex \cup {field} |->
              IF n = field THEN m.numColumns ELSE m.columnToIndex[n]]]

\* a Go map read: the zero value for a missing key
MapGet(c2i, key) == IF key \in DOMAIN c2i THEN c2i[key] ELSE 0

\* mutant of loadSchema: the number of rows is checked first
loadSchemaRowsFirst(values) ==
    IF Len(values) # 1 THEN [err |-> ErrCorrupt, mapping |-> NilMapping]
    ELSE IF Len(values[1]) = 0 THEN [err |-> NoErr, mapping |-> NilMapping]
    ELSE newMappingFromValueRange(values)

\* loadSchema on the answer of the row-1 read
loadSchema(values) ==
    IF Len(values) = 0 \/ Len(values[1]) = 0 THEN [err |-> NoErr, mapping |-> NilMapping]
    ELSE IF Len(values) # 1 THEN [err |-> ErrCorrupt, mapping |-> NilMapping]
    ELSE newMappingFromValueRange(values)

\* the row putSchema sends: the name at each assigned index, null elsewhere
putSchemaRow(m) ==
    [i \in 1..m.numColumns |->
        IF \E f \in DOMAIN m.columnToIndex : m.columnToIndex[f] = i - 1
        THEN CHOOSE f \in DOMAIN m.columnToIndex : m.columnToIndex[f] = i - 1
        ELSE Nil]

\* mutant of validateSchemaMapping: the mapping is rebuilt from the fields
validateSchemaFromFields(m, fields) == newMappingFromFields(fields)

\* the loop of validateSchema: every field not yet mapped is added
RECURSIVE validateSchemaMapping(_, _)
validateSchemaMapping(m, fields) ==
    IF fields = <<>> THEN m
    ELSE validateSchemaMapping(add(m, Head(fields)), Tail(fields))

\* mutant of hasUnknownField: the header is always taken as widened
hasUnknownFieldAlways(m, fields) == TRUE

hasUnknownField(m, fields) ==
    \E j \in 1..Len(fields) : fields[j] \notin DOMAIN m.columnToIndex

\* ------------------------------------------------------------ cell encoder
\* an interface{} value handed to formatCellData: nil, a string, or a Cell
\* with Text, Hyperlink and BackgroundColor (NoColor: the nil *Color)
NoColor == "<no color>"
NilValue == [type |-> "nil", Text |-> "", Hyperlink |-> "", BackgroundColor |-> NoColor]
StringOf(s) == [type |-> "string", Text |-> s, Hyperlink |-> "", BackgroundColor |-> NoColor]
Cell(text, link, color) ==
    [type |-> "Cell", Text |-> text, Hyperlink |-> link, BackgroundColor |-> color]

\* the value of the plain row values of this model ("x", "y" or nil)
ValueOf(v) == IF v = Nil THEN NilValue ELSE StringOf(v)

\* a CellData: the user-entered value (a string or a formula, "" when not
\* set) and the background colour of the user-entered format
CellData(str, formula, color) ==
    [StringValue |-> str, FormulaValue |-> formula, BackgroundColor |-> color]

\* fmt.Sprintf of the two hyperlink formats
HyperlinkText(link, text) == "=HYPERLINK(\"" \o link \o "\";\"" \o text \o "\")"
HyperlinkOnly(link) == "=HYPERLINK(\"" \o link \o "\")"

\* mutant of formatCellData: the colour is attached in the plain-text branch
\* only
formatCellDataColorTextOnly(value) ==
    IF value.type = "nil" THEN CellData("", "", NoColor)
    ELSE IF value.type = "Cell"
    THEN IF value.Hyperlink # ""
         THEN IF value.Text # ""
              THEN CellData("", HyperlinkText(value.Hyperlink, value.Text), NoColor)
              ELSE CellData("", HyperlinkOnly(value.Hyperlink), NoColor)
         ELSE CellData(value.Text, "", value.BackgroundColor)
    ELSE CellData(value.Text, "", NoColor)

formatCellData(value) ==
    IF value.type = "nil" THEN CellData("", "", NoColor)
    ELSE IF value.type = "Cell"
    THEN IF value.Hyperlink # ""
         THEN IF value.Text # ""
              THEN CellData("", HyperlinkText(value.Hyperlink, value.Text), value.BackgroundColor)
              ELSE CellData("", HyperlinkOnly(value.Hyperlink), value.BackgroundColor)
         ELSE CellData(value.Text, "", value.BackgroundColor)
    ELSE CellData(value.Text, "", NoColor)

\* what a cell written from a CellData holds: the formula when there is one,
\* else the string (Empty when neither is set)
CellValue(cd) == IF cd.FormulaValue # "" THEN cd.FormulaValue ELSE cd.StringValue

\* mutant of executeRow: value j is placed at index j
executeRowPacked(m, fields, row) ==
    [k \in 1..m.numColumns |->
        IF k <= Len(fields) THEN CellValue(formatCellData(ValueOf(row[k]))) ELSE Empty]

\* the cells of one appended row: width numColumns, value j at the index of
\* field j (a later field with the same index overwrites), nothing elsewhere
executeRow(m, fields, row) ==
    [k \in 1..m.numColumns |->
        LET js == {j \in 1..Len(fields) : MapGet(m.columnToIndex, fields[j]) = k - 1}
        IN IF js = {} THEN Empty
           ELSE CellValue(formatCellData(ValueOf(row[CHOOSE j \in js : \A j2 \in js : j2 <= j])))]

\* --------------------------------------------------------- query builders
\* fail names the backend call that fails in this run of the operation
\* ("none": every call succeeds).  calls lists the backend calls the Do of
\* the query issues, in order (the sheet lookup of Client.Insert and
\* Client.Sort precedes Do and is not listed).
CallGet == "values.get"
CallUpdate == "values.update"
CallAppend == "batchUpdate.appendCells"
CallClear == "values.clear"
CallSort == "batchUpdate.sortRange"
WriteCalls == {CallUpdate, CallAppend, CallClear, CallSort}

\* InsertQuery.execute; rows: the rows of the AppendCells request
execute(sh, id, m, fields, values, fail) ==
    IF Len(fields) = 0 THEN [err |-> NoErr, sheets |-> sh, calls |-> <<>>, rows |-> <<>>]
    ELSE IF \E i \in 1..Len(values) : Len(values[i]) # Len(fields)
    THEN [err |-> ErrMismatch, sheets |-> sh, calls |-> <<>>, rows |-> <<>>]
    ELSE LET rows == [i \in 1..Len(values) |-> executeRow(m, fields, values[i])]
             res == BatchUpdate(sh, <<ReqAppendCells(id, rows)>>)
         IN IF fail = "append"
            THEN [err |-> ErrAppend, sheets |-> sh, calls |-> <<CallAppend>>, rows |-> rows]
            ELSE [err |-> IF res.ok THEN NoErr ELSE ErrAppend, sheets |-> res.sheets,
                  calls |-> <<CallAppend>>, rows |-> rows]

\* InsertQuery.getSchema with setSchema, validateSchema and putSchema
getSchema(sh, id, fields, fail) ==
    IF fail = "load"
    THEN [err |-> ErrLoad, mapping |-> NilMapping, sheets |-> sh, calls |-> <<CallGet>>]
    ELSE LET loaded == loadSchema(ValuesGetFirstRow(sh, id))
         IN IF loaded.err # NoErr
            THEN [err |-> loaded.err, mapping |-> NilMapping, sheets |-> sh,
                  calls |-> <<CallGet>>]
            ELSE IF loaded.mapping.nil
            THEN LET m == newMappingFromFields(fields)
                 IN IF fail = "put"
                    THEN [err |-> ErrPut, mapping |-> NilMapping, sheets |-> sh,
                          calls |-> <<CallGet, CallUpdate>>]
                    ELSE IF m.numColumns # Len(fields)
                    THEN [err |-> ErrMapColumns, mapping |-> NilMapping,
                          sheets |-> ValuesUpdate(sh, id, putSchemaRow(m)),
                          calls |-> <<CallGet, CallUpdate>>]
                    ELSE [err |-> NoErr, mapping |-> m,
                          sheets |-> ValuesUpdate(sh, id, putSchemaRow(m)),
                          calls |-> <<CallGet, CallUpdate>>]
            ELSE LET m == validateSchemaMapping(loaded.mapping, fields)
                 IN IF ~hasUnknownField(loaded.mapping, fields)
                    THEN [err |-> NoErr, mapping |-> m, sheets |-> sh, calls |-> <<CallGet>>]
                    ELSE IF fail = "put"
                    THEN [err |-> ErrPut, mapping |-> NilMapping, sheets |-> sh,
                          calls |-> <<CallGet, CallUpdate>>]
                    ELSE [err |-> NoErr, mapping |-> m,
                          sheets |-> ValuesUpdate(sh, id, putSchemaRow(m)),
                          calls |-> <<CallGet, CallUpdate>>]

\* InsertQuery.Do once q.err is nil and there is a row: getSchema, execute
InsertRun(sh, id, fields, values, fail) ==
    LET schema == getSchema(sh, id, fields, fail)
    IN IF schema.err # NoErr
       THEN [err |-> schema.err, sheets |-> schema.sheets, calls |-> schema.calls,
             rows |-> <<>>]
       ELSE LET res == execute(schema.sheets, id, schema.mapping, fields, values, fail)
            IN [err |-> res.err, sheets |-> res.sheets, calls |-> schema.calls \o res.calls,
                rows |-> res.rows]

\* mutant of InsertDo: the error of the sheet lookup is not kept
InsertDoUnchecked(sh, sheet, fields, values, fail) ==
    LET id == findSheetId(sh, sheet)
    IN IF Len(values) = 0 THEN [err |-> NoErr, sheets |-> sh, calls |-> <<>>, rows |-> <<>>]
       ELSE IF fail = "find" \/ id = NotFound
       THEN [err |-> ErrLoad, sheets |-> sh, calls |-> <<CallGet>>, rows |-> <<>>]
       ELSE InsertRun(sh, id, fields, values, fail)

\* mutant of InsertDo: the schema is resolved before the rows are counted
InsertDoSchemaFirst(sh, sheet, fields, values, fail) ==
    LET id == findSheetId(sh, sheet)
    IN IF fail = "find" THEN [err |-> ErrFind, sheets |-> sh, calls |-> <<>>, rows |-> <<>>]
       ELSE IF id = NotFound
       THEN [err |-> ErrUnknownSheet, sheets |-> sh, calls |-> <<>>, rows |-> <<>>]
       ELSE InsertRun(sh, id, fields, values, fail)

\* Client.Insert(table, sheet).Into(fields).Rows(values).Do(): the error of
\* the sheet lookup of Client.Insert is what Do returns first
InsertDo(sh, sheet, fields, values, fail) ==
    LET id == findSheetId(sh, sheet)
    IN IF fail = "find" THEN [err |-> ErrFind, sheets |-> sh, calls |-> <<>>, rows |-> <<>>]
       ELSE IF id = NotFound
       THEN [err |-> ErrUnknownSheet, sheets |-> sh, calls |-> <<>>, rows |-> <<>>]
       ELSE IF Len(values) = 0 THEN [err |-> NoErr, sheets |-> sh, calls |-> <<>>, rows |-> <<>>]
       ELSE InsertRun(sh, id, fields, values, fail)

\* Client.Delete(table, sheet).Do(): the backend cannot resolve the range of
\* a sheet that does not exist
DeleteDo(sh, sheet, fail) ==
    LET id == findSheetId(sh, sheet)
    IN IF fail = "clear" \/ id = NotFound
       THEN [err |-> ErrClear, sheets |-> sh, calls |-> <<CallClear>>]
       ELSE [err |-> NoErr, sheets |-> ValuesClear(sh, id), calls |-> <<CallClear>>]

\* mutant of SortSpecs: the specs are filled from the last key to the first
SortSpecsReversed(m, columns) ==
    [i \in 1..Len(columns) |-> MapGet(m.columnToIndex, columns[Len(columns) + 1 - i])]

\* the DimensionIndex of the sort specs, in the order of q.columns
SortSpecs(m, columns) ==
    [i \in 1..Len(columns) |-> MapGet(m.columnToIndex, columns[i])]

\* Client.Sort(table, sheet).By(columns).Do(); panic = TRUE when the run
\* dereferences the nil schema
SortDo(sh, sheet, columns, fail) ==
    LET id == findSheetId(sh, sheet)
    IN IF fail = "find" \/ id = NotFound
       THEN [err |-> ErrUnknownSheet, panic |-> FALSE, sheets |-> sh, calls |-> <<>>]
       ELSE IF fail = "load"
       THEN [err |-> ErrLoad, panic |-> FALSE, sheets |-> sh, calls |-> <<CallGet>>]
       ELSE LET schema == loadSchema(ValuesGetFirstRow(sh, id))
            IN IF schema.err # NoErr
               THEN [err |-> schema.err, panic |-> FALSE, sheets |-> sh, calls |-> <<CallGet>>]
               ELSE IF schema.mapping.nil /\ Len(columns) > 0
               THEN [err |-> NoErr, panic |-> TRUE, sheets |-> sh, calls |-> <<CallGet>>]
               ELSE IF fail = "sort"
               THEN [err |-> ErrSort, panic |-> FALSE, sheets |-> sh,
                     calls |-> <<CallGet, CallSort>>]
               ELSE LET specs == SortSpecs(schema.mapping, columns)
                        res == BatchUpdate(sh, <<ReqSortRange(id, specs)>>)
                    IN [err |-> IF res.ok THEN NoErr ELSE ErrSort,
                        panic |-> FALSE, sheets |-> res.sheets,
                        calls |-> <<CallGet, CallSort>>]

\* ----------------------------------------------------------------- state
VARIABLES
    sheets,     \* the spreadsheet: SheetIds -> sheet or NoSheet
    pc,         \* where the process is: "idle", "body", "returned", "done", "panic"
    snap,       \* the Snapshot the running WithSnapshot call builds
    bodyRet,    \* what the callback returned ("none" while it has not)
    ret,        \* what WithSnapshot returned ("none" while it has not)
    log,        \* the operations of the running call, in the order issued
    lastOp,     \* kind and error of the latest operation issued on the snapshot
    term,       \* the snapshot: "none" (not created), "open", "committed", "rolledback"
    pre,        \* the spreadsheet when the running call started
    atReturn,   \* the spreadsheet when the callback returned
    call,       \* the latest call made on the client directly, with its outcome
    iter        \* the poll loop of run: iterations done, inputs and error of the latest

vars == <<sheets, pc, snap, bodyRet, ret, log, lastOp, term, pre, atReturn, call, iter>>

NoSnap == [originalSheetName |-> "", originalSheetId |-> NotFound,
           tempSheetName |-> "", tempSheetId |-> NotFound]
NoOp == [kind |-> "none", err |-> NoErr]

\* a call on the client: the operation, its arguments (sheet, fields and
\* values of an Insert, columns of a Sort, arg of loadSchema or
\* formatCellData), the backend call that fails, and the outcome: the error
\* returned, whether it panicked, the backend calls Do issued, out: the value
\* returned by loadSchema or formatCellData, the rows an Insert sent to be
\* appended; n counts the calls made so far
MkCall(op, sheet, fields, values, columns, arg, fail, err, panic, calls, out, n) ==
    [op |-> op, sheet |-> sheet, fields |-> fields, values |-> values,
     columns |-> columns, arg |-> arg, fail |-> fail, err |-> err, panic |-> panic,
     calls |-> calls, out |-> out, n |-> n]
\* the poll loop before run: n iterations done, the tasks and the merge requests
\* the running iteration fetched, the transaction it is in ("mr", "reviews"),
\* the error runIter returned last
NoIter == [n |-> 0, tasks |-> <<>>, requests |-> <<>>, tx |-> "none", err |-> "none"]
NoCall == MkCall("none", "", <<>>, <<>>, <<>>, <<>>, "none", NoErr, FALSE, <<>>, <<>>, 0)

Q(fields, values) == [fields |-> fields, values |-> values]

\* the queries a caller builds with Into / Values / Rows: no row, one row,
\* two rows, a nil value, a repeated field, no field, rows of another length
\* than the field list, a row equal to another in one column
InsertQueries ==
    {Q(<<>>, <<>>),
     Q(<<>>, << <<"x">> >>),
     Q(<<"A">>, <<>>),
     Q(<<"A">>, << <<"x">> >>),
     Q(<<"A">>, << <<"y">>, <<"x">> >>),
     Q(<<"A">>, << <<"x", "y">> >>),
     Q(<<"B">>, << <<"y">> >>),
     Q(<<"A", "B">>, << <<"x", "y">> >>),
     Q(<<"A", "B">>, << <<Nil, "x">> >>),
     Q(<<"A", "B">>, << <<"x", "x">> >>),
     Q(<<"A", "B">>, << <<"y", "x">>, <<"x", "y">> >>),
     Q(<<"A", "B">>, << <<"x">>, <<"x", "y">> >>),
     Q(<<"B", "A">>, << <<"x", "y">> >>),
     Q(<<"A", "A">>, << <<"x", "y">> >>)}

\* a query that declares a third field, made on the client directly
WideQueries == {Q(<<"A", "B", "C">>, << <<"x", "y", "x">> >>)}

\* the key lists a caller passes to By ("C" is a name no header has)
ColumnLists == {<<>>, <<"A">>, <<"B">>, <<"C">>, <<"A", "B">>, <<"B", "A">>}

\* grids the program itself has written to the target sheet
InitGrids == {<<>>, << <<"A", "B">>, <<"y", "x">> >>}

\* the hidden shadow sheet an earlier call leaves behind when its commit or
\* rollback batch fails (the target sheet has been written by then)
Leftover == MkSheet("tmpP", TRUE, << <<"B">>, <<"y">> >>)

Init ==
    /\ \E g \in InitGrids, left \in {NoSheet, Leftover} :
         /\ left = Leftover => g # <<>>
         /\ sheets = [i \in SheetIds |-> IF i = 1 THEN MkSheet("S", FALSE, g)
                                         ELSE IF i = 2 THEN MkSheet("R", FALSE, <<>>)
                                         ELSE IF i = 0 THEN left ELSE NoSheet]
    /\ pc = "idle"
    /\ snap = NoSnap
    /\ bodyRet = "none"
    /\ ret = "none"
    /\ log = <<>>
    /\ lastOp = NoOp
    /\ term = "none"
    /\ pre = sheets
    /\ atReturn = sheets
    /\ call = NoCall
    /\ iter = NoIter

\* -------------------------------------------------------------- snapshot
\* the two requests of the batch of Client.Snapshot
SnapshotRequests(s) ==
    <<ReqDuplicate(s.originalSheetId, s.tempSheetId, s.tempSheetName), ReqHide(s.tempSheetId)>>

\* mutant of CommitRequests: the copy-paste request is missing
CommitRequestsNoPaste(s) ==
    <<ReqDeleteRange(s.originalSheetId), ReqDeleteSheet(s.tempSheetId)>>

\* the three requests of the batch of Snapshot.Commit
CommitRequests(s) ==
    <<ReqDeleteRange(s.originalSheetId),
      ReqCopyPaste(s.tempSheetId, s.originalSheetId),
      ReqDeleteSheet(s.tempSheetId)>>

\* mutant of RollbackRequests: the sheet deleted is the original one
RollbackRequestsOriginal(s) == <<ReqDeleteSheet(s.originalSheetId)>>

\* the request of the batch of Snapshot.Rollback
RollbackRequests(s) == <<ReqDeleteSheet(s.tempSheetId)>>

\* mutant of SnapshotDelete: the query addresses the original sheet
SnapshotDeleteOriginal(s) == s.originalSheetName

\* the sheet the queries built by Snapshot.Insert / Delete / Sort address
SnapshotInsert(s) == s.tempSheetName
SnapshotDelete(s) == s.tempSheetName
SnapshotSort(s) == s.tempSheetName

\* mutant of batch: the requests are sent one by one, the first one is
\* applied before the failure
batchOneByOne(sh, reqs, fails) ==
    IF fails THEN [ok |-> FALSE, sheets |-> ApplyRequest(sh, Head(reqs)).sheets]
    ELSE BatchUpdate(sh, reqs)

\* Client.batch / Snapshot.batch: fails = TRUE when the backend call fails
batch(sh, reqs, fails) ==
    IF fails THEN [ok |-> FALSE, sheets |-> sh] ELSE BatchUpdate(sh, reqs)

\* Client.Snapshot as the first step of Client.WithSnapshot: the sheet id is
\* looked up, the snapshot is created; on an error WithSnapshot returns it
Begin ==
    /\ pc = "idle"
    /\ \E sheet \in SheetNames, tempId \in SheetIds, tempName \in TempNames,
          fail \in {"none", "find", "batch"} :
         LET originalSheetId == findSheetId(sheets, sheet)
             s == [originalSheetName |-> sheet, originalSheetId |-> originalSheetId,
                   tempSheetName |-> tempName, tempSheetId |-> tempId]
             res == batch(sheets, SnapshotRequests(s), fail = "batch")
         IN /\ snap' = s
            /\ IF fail = "find" \/ originalSheetId = NotFound
               THEN /\ ret' = (IF fail = "find" THEN ErrFind ELSE ErrUnknownSheet)
                    /\ pc' = "done"
                    /\ term' = "none"
                    /\ log' = <<>>
                    /\ UNCHANGED sheets
               ELSE IF ~res.ok
               THEN /\ ret' = ErrCreate
                    /\ pc' = "done"
                    /\ term' = "none"
                    /\ log' = <<"snapshot">>
                    /\ UNCHANGED sheets
               ELSE /\ ret' = "none"
                    /\ pc' = "body"
                    /\ term' = "open"
                    /\ log' = <<"snapshot">>
                    /\ sheets' = res.sheets
    /\ bodyRet' = "none"
    /\ lastOp' = NoOp
    /\ pre' = sheets
    /\ atReturn' = sheets
    /\ UNCHANGED <<call, iter>>

BodyOps == {"op", "body.commit", "body.rollback"}
nOps == Cardinality({i \in 1..Len(log) : log[i] \in BodyOps})

\* the rows a sheet may hold in this model
Fits(sh) == \A i \in SheetIds : Len(sh[i].rows) <= MaxDataRows + 1

\* the callback runs snapshot.Insert().Into(fields).Rows(values).Do()
BodyInsert ==
    /\ pc = "body"
    /\ nOps < MaxBodyOps
    /\ \E q \in InsertQueries, fail \in {"none", "find", "load", "put", "append"} :
         LET res == InsertDo(sheets, SnapshotInsert(snap), q.fields, q.values, fail)
         IN /\ Fits(res.sheets)
            /\ sheets' = res.sheets
            /\ lastOp' = [kind |-> "insert", err |-> res.err]
    /\ log' = Append(log, "op")
    /\ UNCHANGED <<pc, snap, bodyRet, ret, term, pre, atReturn, call, iter>>

\* the callback runs snapshot.Delete().Do()
BodyDelete ==
    /\ pc = "body"
    /\ nOps < MaxBodyOps
    /\ \E fail \in {"none", "clear"} :
         LET res == DeleteDo(sheets, SnapshotDelete(snap), fail)
         IN /\ sheets' = res.sheets
            /\ lastOp' = [kind |-> "delete", err |-> res.err]
    /\ log' = Append(log, "op")
    /\ UNCHANGED <<pc, snap, bodyRet, ret, term, pre, atReturn, call, iter>>

\* the callback runs snapshot.Sort().By(columns).Do(); a panic unwinds
\* through WithSnapshot and ends the process
BodySort ==
    /\ pc = "body"
    /\ nOps < MaxBodyOps
    /\ \E columns \in ColumnLists, fail \in {"none", "find", "load", "sort"} :
         LET res == SortDo(sheets, SnapshotSort(snap), columns, fail)
         IN /\ sheets' = res.sheets
            /\ lastOp' = [kind |-> "sort", err |-> IF res.panic THEN "panic" ELSE res.err]
            /\ pc' = IF res.panic THEN "panic" ELSE "body"
    /\ log' = Append(log, "op")
    /\ UNCHANGED <<snap, bodyRet, ret, term, pre, atReturn, call, iter>>

\* the callback itself runs snapshot.Commit()
BodyCommit ==
    /\ pc = "body"
    /\ nOps < MaxBodyOps
    /\ \E fails \in BOOLEAN :
         LET res == batch(sheets, CommitRequests(snap), fails)
         IN /\ sheets' = res.sheets
            /\ lastOp' = [kind |-> "commit", err |-> IF res.ok THEN NoErr ELSE ErrCommit]
            /\ term' = IF res.ok THEN "committed" ELSE term
    /\ log' = Append(log, "body.commit")
    /\ UNCHANGED <<pc, snap, bodyRet, ret, pre, atReturn, call, iter>>

\* the callback itself runs snapshot.Rollback()
BodyRollback ==
    /\ pc = "body"
    /\ nOps < MaxBodyOps
    /\ \E fails \in BOOLEAN :
         LET res == batch(sheets, RollbackRequests(snap), fails)
         IN /\ sheets' = res.sheets
            /\ lastOp' = [kind |-> "rollback", err |-> IF res.ok THEN NoErr ELSE ErrRollback]
            /\ term' = IF res.ok THEN "rolledback" ELSE term
    /\ log' = Append(log, "body.rollback")
    /\ UNCHANGED <<pc, snap, bodyRet, ret, pre, atReturn, call, iter>>

\* the callback returns nil, or an error: the one of its latest operation
\* when that failed, else one of its own
BodyReturn ==
    /\ pc = "body"
    /\ \E e \in {NoErr, IF lastOp.err = NoErr THEN ErrBody ELSE lastOp.err} :
         bodyRet' = e
    /\ pc' = "returned"
    /\ atReturn' = sheets
    /\ UNCHANGED <<sheets, snap, ret, log, lastOp, term, pre, call, iter>>

\* WithSnapshot after cb returned nil: return snapshot.Commit()
Commit ==
    /\ pc = "returned"
    /\ bodyRet = NoErr
    /\ \E fails \in BOOLEAN :
         LET res == batch(sheets, CommitRequests(snap), fails)
         IN /\ sheets' = res.sheets
            /\ ret' = IF res.ok THEN NoErr ELSE ErrCommit
            /\ lastOp' = [kind |-> "commit", err |-> IF res.ok THEN NoErr ELSE ErrCommit]
            /\ term' = IF res.ok THEN "committed" ELSE term
    /\ log' = Append(log, "commit")
    /\ pc' = "done"
    /\ UNCHANGED <<snap, bodyRet, pre, atReturn, call, iter>>

\* mutant of RollbackResult: the rollback error replaces the callback's
RollbackResultSubstituted(err, rollbackError) ==
    IF rollbackError # NoErr THEN rollbackError ELSE err

\* what WithSnapshot returns after cb returned err and Rollback returned
\* rollbackError
RollbackResult(err, rollbackError) == err

\* WithSnapshot after cb returned an error: snapshot.Rollback(), whose own
\* error is logged, and return err
Rollback ==
    /\ pc = "returned"
    /\ bodyRet # NoErr
    /\ \E fails \in BOOLEAN :
         LET res == batch(sheets, RollbackRequests(snap), fails)
         IN /\ sheets' = res.sheets
            /\ ret' = RollbackResult(bodyRet, IF res.ok THEN NoErr ELSE ErrRollback)
            /\ lastOp' = [kind |-> "rollback", err |-> IF res.ok THEN NoErr ELSE ErrRollback]
            /\ term' = IF res.ok THEN "rolledback" ELSE term
    /\ log' = Append(log, "rollback")
    /\ pc' = "done"
    /\ UNCHANGED <<snap, bodyRet, pre, atReturn, call, iter>>

Next ==
    \/ Begin
    \/ BodyInsert
    \/ BodyDelete
    \/ BodySort
    \/ BodyCommit
    \/ BodyRollback
    \/ BodyReturn
    \/ Commit
    \/ Rollback

Spec == Init /\ [][Next]_vars

\* ------------------------------------------------- calls on the client
\* The query builders, loadSchema and formatCellData called directly, one
\* after the other, on the sheets of the spreadsheet.

\* answers of the row-1 read given to loadSchema: no row, a row without
\* cells, one row of names, more rows than one, a cell that is not a string
ResolveAnswers ==
    {<<>>, << <<>> >>, << <<"A">> >>, << <<"A", "B">> >>, << <<"B", "A">> >>,
     << <<Empty, "A">> >>, << <<"A">>, <<"B">> >>, << <<>>, <<"A">> >>,
     << <<"A", NonString>> >>}

\* values given to formatCellData
Texts == {"", "ok", "failed"}
Links == {"", "http://mr/1"}
Colors == {NoColor, "LightRed", "LightGreen"}
EncodeValues ==
    {NilValue, StringOf("x"), StringOf("y")}
        \cup {Cell(text, link, color) : text \in Texts, link \in Links, color \in Colors}

\* Client.Insert(table, sheet).Into(fields).Rows(values).Do()
QueryInsert ==
    /\ pc = "idle"
    /\ call.n < MaxCalls
    /\ \E sheet \in SheetNames, q \in InsertQueries \cup WideQueries,
          fail \in {"none", "find", "load", "put", "append"} :
         LET res == InsertDo(sheets, sheet, q.fields, q.values, fail)
         IN /\ Fits(res.sheets)
            /\ sheets' = res.sheets
            /\ call' = MkCall("insert", sheet, q.fields, q.values, <<>>, <<>>, fail,
                              res.err, FALSE, res.calls, res.rows, call.n + 1)
    /\ pre' = sheets
    /\ UNCHANGED <<pc, snap, bodyRet, ret, log, lastOp, term, atReturn, iter>>

\* Client.Delete(table, sheet).Do()
QueryDelete ==
    /\ pc = "idle"
    /\ call.n < MaxCalls
    /\ \E sheet \in SheetNames, fail \in {"none", "clear"} :
         LET res == DeleteDo(sheets, sheet, fail)
         IN /\ sheets' = res.sheets
            /\ call' = MkCall("delete", sheet, <<>>, <<>>, <<>>, <<>>, fail,
                              res.err, FALSE, res.calls, <<>>, call.n + 1)
    /\ pre' = sheets
    /\ UNCHANGED <<pc, snap, bodyRet, ret, log, lastOp, term, atReturn, iter>>

\* Client.Sort(table, sheet).By(columns).Do(); a panic ends the process
QuerySort ==
    /\ pc = "idle"
    /\ call.n < MaxCalls
    /\ \E sheet \in SheetNames, columns \in ColumnLists,
          fail \in {"none", "find", "load", "sort"} :
         LET res == SortDo(sheets, sheet, columns, fail)
         IN /\ sheets' = res.sheets
            /\ call' = MkCall("sort", sheet, <<>>, <<>>, columns, <<>>, fail,
                              res.err, res.panic, res.calls, <<>>, call.n + 1)
            /\ pc' = IF res.panic THEN "panic" ELSE pc
    /\ pre' = sheets
    /\ UNCHANGED <<snap, bodyRet, ret, log, lastOp, term, atReturn, iter>>

\* loadSchema(client, table, sheet) on an answer of the row-1 read: one of
\* ResolveAnswers, or the first row of the sheet as it is
Resolve ==
    /\ pc = "idle"
    /\ call.n < MaxCalls
    /\ \E sheet \in {"S"}, fail \in {"none", "load"},
          values \in ResolveAnswers \cup {ValuesGetFirstRow(sheets, findSheetId(sheets, "S"))} :
         LET res == IF fail = "load" THEN [err |-> ErrLoad, mapping |-> NilMapping]
                    ELSE loadSchema(values)
         IN call' = MkCall("resolve", sheet, <<>>, <<>>, <<>>, values, fail,
                           res.err, FALSE, <<CallGet>>, res.mapping, call.n + 1)
    /\ pre' = sheets
    /\ UNCHANGED <<sheets, pc, snap, bodyRet, ret, log, lastOp, term, atReturn, iter>>

\* formatCellData(value)
Encode ==
    /\ pc = "idle"
    /\ call.n < MaxCalls
    /\ \E value \in EncodeValues :
         call' = MkCall("encode", "", <<>>, <<>>, <<>>, value, "none",
                        NoErr, FALSE, <<>>, formatCellData(value), call.n + 1)
    /\ pre' = sheets
    /\ UNCHANGED <<sheets, pc, snap, bodyRet, ret, log, lastOp, term, atReturn, iter>>

NextQuery ==
    \/ QueryInsert
    \/ QueryDelete
    \/ QuerySort
    \/ Resolve
    \/ Encode

SpecQuery == Init /\ [][NextQuery]_vars

\* ------------------------------------------------------------ poll loop
\* run of cmd/main.go: the setup, then for { runIter(); Sleep }.  Sheet "S"
\* stands for "Merge Requests" and sheet "R" for "Reviews"; column "A" for
\* "Student" and "B" for "Task" (the five further columns of Merge Requests
\* are left out); a merge request is <<student, task>>; the Cell of a
\* student's task in Reviews is written as the plain value "x".
MergeRequestsSheet == "S"
ReviewsSheet == "R"
LoopTempNames == TempNames \cup {"tmpQ"}
ErrSetup == "setup failed"
ErrTasks == "Failed to get tasks from deadlines.yml"
ErrGroup == "Failed to list group merge requests"

\* what listTasksFromDeadlines and ListGroupRequests may return
TaskLists == {<<>>, <<"x">>, <<"x", "y">>}
RequestLists == {<<>>, << <<"x", "y">> >>, << <<"y", "x">>, <<"x", "y">> >>}

\* the students of the merge requests, each once, in the order of sort.Strings
Students(requests) ==
    LET all == {requests[i][1] : i \in 1..Len(requests)}
    IN IF all = {"x", "y"} THEN <<"x", "y">>
       ELSE IF all = {} THEN <<>>
       ELSE <<CHOOSE st \in all : TRUE>>

\* taskToIndex[task]: the zero value for a task deadlines.yml does not list
TaskIndex(tasks, task) ==
    IF \E k \in 1..Len(tasks) : tasks[k] = task
    THEN (CHOOSE k \in 1..Len(tasks) :
              tasks[k] = task /\ \A k2 \in 1..Len(tasks) : tasks[k2] = task => k2 <= k) - 1
    ELSE 0

\* the rows of the Reviews query: the student, then per task the Cell of the
\* student's merge request for it, nil where there is none
ReviewsRows(tasks, requests) ==
    LET students == Students(requests)
    IN [n \in 1..Len(students) |->
          [k \in 1..(Len(tasks) + 1) |->
              IF k = 1 THEN students[n]
              ELSE IF \E i \in 1..Len(requests) :
                        requests[i][1] = students[n]
                            /\ 1 + TaskIndex(tasks, requests[i][2]) = k - 1
              THEN "x"
              ELSE Nil]]

\* values[1+taskToIndex[mr.task]] is out of range when no task is listed
ReviewsRowsPanic(tasks, requests) == Len(tasks) = 0 /\ Len(requests) > 0

\* run up to the loop: a failure of the setup is returned to main
Run ==
    /\ pc = "idle"
    /\ \E ok \in BOOLEAN :
         /\ pc' = IF ok THEN "iter" ELSE "fatal"
         /\ iter' = [iter EXCEPT !.err = IF ok THEN "none" ELSE ErrSetup]
    /\ UNCHANGED <<sheets, snap, bodyRet, ret, log, lastOp, term, pre, atReturn, call>>

\* runIter: listTasksFromDeadlines
ListTasks ==
    /\ pc = "iter"
    /\ \/ \E tasks \in TaskLists :
            /\ iter' = [iter EXCEPT !.tasks = tasks, !.requests = <<>>, !.err = "none"]
            /\ pc' = "group"
       \/ /\ iter' = [iter EXCEPT !.tasks = <<>>, !.requests = <<>>, !.err = ErrTasks]
          /\ pc' = "sleep"
    /\ UNCHANGED <<sheets, snap, bodyRet, ret, log, lastOp, term, pre, atReturn, call>>

\* runIter: gitlab.ListGroupRequests
ListGroup ==
    /\ pc = "group"
    /\ \/ \E requests \in RequestLists :
            /\ Len(requests) <= MaxDataRows
            /\ iter' = [iter EXCEPT !.requests = requests, !.tx = "mr"]
            /\ pc' = "tx.begin"
       \/ /\ iter' = [iter EXCEPT !.err = ErrGroup]
          /\ pc' = "sleep"
    /\ UNCHANGED <<sheets, snap, bodyRet, ret, log, lastOp, term, pre, atReturn, call>>

\* the transaction the iteration is in: its sheet, and the fields, rows and
\* sort keys of its callback
TxSheet == IF iter.tx = "mr" THEN MergeRequestsSheet ELSE ReviewsSheet
TxFields == IF iter.tx = "mr" THEN <<"A", "B">> ELSE <<"A">> \o iter.tasks
TxRows == IF iter.tx = "mr" THEN iter.requests ELSE ReviewsRows(iter.tasks, iter.requests)
TxKeys == <<"A", "B">>

\* runIter: WithSnapshot begins one of the two transactions (Client.Snapshot);
\* an error is returned by runIter
TxBegin ==
    /\ pc = "tx.begin"
    /\ \E tempId \in SheetIds, tempName \in LoopTempNames, fail \in {"none", "find", "batch"} :
         LET originalSheetId == findSheetId(sheets, TxSheet)
             s == [originalSheetName |-> TxSheet, originalSheetId |-> originalSheetId,
                   tempSheetName |-> tempName, tempSheetId |-> tempId]
             res == batch(sheets, SnapshotRequests(s), fail = "batch")
         IN IF fail = "find" \/ originalSheetId = NotFound \/ ~res.ok
            THEN /\ iter' = [iter EXCEPT !.err =
                                IF fail = "find" THEN ErrFind
                                ELSE IF originalSheetId = NotFound THEN ErrUnknownSheet
                                ELSE ErrCreate]
                 /\ pc' = "sleep"
                 /\ UNCHANGED <<sheets, snap>>
            ELSE /\ iter' = iter
                 /\ pc' = "tx.delete"
                 /\ sheets' = res.sheets
                 /\ snap' = s
    /\ bodyRet' = "none"
    /\ UNCHANGED <<ret, log, lastOp, term, pre, atReturn, call>>

\* the callback: snapshot.Delete().Do(), then the rows of the query are
\* built (which panics in the Reviews callback when no task is listed)
TxDelete ==
    /\ pc = "tx.delete"
    /\ \E fail \in {"none", "clear"} :
         LET res == DeleteDo(sheets, SnapshotDelete(snap), fail)
         IN /\ sheets' = res.sheets
            /\ bodyRet' = IF res.err = NoErr THEN "none" ELSE res.err
            /\ pc' = IF res.err # NoErr THEN "tx.end"
                     ELSE IF iter.tx = "reviews" /\ ReviewsRowsPanic(iter.tasks, iter.requests)
                     THEN "panic"
                     ELSE "tx.insert"
    /\ UNCHANGED <<snap, ret, log, lastOp, term, pre, atReturn, call, iter>>

\* the callback: query.Do() of the Insert
TxInsert ==
    /\ pc = "tx.insert"
    /\ \E fail \in {"none", "find", "load", "put", "append"} :
         LET res == InsertDo(sheets, SnapshotInsert(snap), TxFields, TxRows, fail)
         IN /\ sheets' = res.sheets
            /\ bodyRet' = IF res.err = NoErr THEN "none" ELSE res.err
            /\ pc' = IF res.err # NoErr THEN "tx.end" ELSE "tx.sort"
    /\ UNCHANGED <<snap, ret, log, lastOp, term, pre, atReturn, call, iter>>

\* the callback: snapshot.Sort().By("Student", "Task").Do() and its return;
\* a panic unwinds through WithSnapshot, runIter and run
TxSort ==
    /\ pc = "tx.sort"
    /\ \E fail \in {"none", "find", "load", "sort"} :
         LET res == SortDo(sheets, SnapshotSort(snap), TxKeys, fail)
         IN /\ sheets' = res.sheets
            /\ bodyRet' = IF res.panic THEN "panic" ELSE res.err
            /\ pc' = IF res.panic THEN "panic" ELSE "tx.end"
    /\ UNCHANGED <<snap, ret, log, lastOp, term, pre, atReturn, call, iter>>

\* WithSnapshot after the callback returned: Commit or Rollback; runIter
\* goes on to the Reviews transaction or returns
TxEnd ==
    /\ pc = "tx.end"
    /\ \E fails \in BOOLEAN :
         LET res == IF bodyRet = NoErr THEN batch(sheets, CommitRequests(snap), fails)
                    ELSE batch(sheets, RollbackRequests(snap), fails)
             err == IF bodyRet = NoErr THEN (IF res.ok THEN NoErr ELSE ErrCommit)
                    ELSE RollbackResult(bodyRet, IF res.ok THEN NoErr ELSE ErrRollback)
         IN /\ sheets' = res.sheets
            /\ IF err = NoErr /\ iter.tx = "mr"
               THEN /\ iter' = [iter EXCEPT !.tx = "reviews"]
                    /\ pc' = "tx.begin"
               ELSE /\ iter' = [iter EXCEPT !.err = IF err = NoErr THEN "none" ELSE err]
                    /\ pc' = "sleep"
    /\ UNCHANGED <<snap, bodyRet, ret, log, lastOp, term, pre, atReturn, call>>

\* the loop: the error of runIter is logged, Sleep, the next iteration
Sleep ==
    /\ pc = "sleep"
    /\ iter.n < MaxIters
    /\ pc' = "iter"
    /\ iter' = [iter EXCEPT !.n = iter.n + 1]
    /\ UNCHANGED <<sheets, snap, bodyRet, ret, log, lastOp, term, pre, atReturn, call>>

NextLoop ==
    \/ Run
    \/ ListTasks
    \/ ListGroup
    \/ TxBegin
    \/ TxDelete
    \/ TxInsert
    \/ TxSort
    \/ TxEnd
    \/ Sleep

SpecLoop == Init /\ [][NextLoop]_vars

\* ================================================================ claims
\* the sheet WithSnapshot was called on, and the shadow sheet of its snapshot
o == snap.originalSheetId
t == snap.tempSheetId

Began == term # "none"
BodyFailed == bodyRet \notin {"none", NoErr}
\* the callback used the snapshot for Insert, Delete and Sort only
OnlyMutations == \A i \in 1..Len(log) : log[i] \notin {"body.commit", "body.rollback"}
\* an operation was issued on the snapshot in this step
Issued == log' # log /\ Len(log) >= 1

Header(sh, i) == IF sh[i].rows = <<>> THEN <<>> ELSE sh[i].rows[1]
DataRows(sh, i) == IF sh[i].rows = <<>> THEN <<>> ELSE Tail(sh[i].rows)
NamesOf(header) == {header[k] : k \in 1..Len(header)} \ {Empty}

\* every name of the old header is at the same index of the new one
KeepsIndices(old, new) ==
    \A k \in 1..Len(old) : old[k] # Empty => k <= Len(new) /\ new[k] = old[k]

\* every name the new header adds lies beyond the old column count
AppendedOnly(old, new) ==
    \A k \in 1..Len(new) :
        (new[k] # Empty /\ new[k] \notin NamesOf(old)) => k > Len(old)

\* C1: when begin succeeded, the callback issued only Insert / Delete / Sort
\* and returned an error, the original sheet (title, visibility, header and
\* data rows) is after WithSnapshot returned what it was before the call, and
\* still found under its name with its id, whether the rollback batch
\* succeeded or failed.
C1_RollbackLeavesOriginal ==
    (pc = "done" /\ Began /\ BodyFailed /\ OnlyMutations)
        => /\ sheets[o] = pre[o]
           /\ findSheetId(sheets, snap.originalSheetName) = o

\* C1 witness: the callback changed the shadow sheet and failed, and the
\* rollback batch failed as well.
C1_Witness ==
    /\ pc = "done" /\ Began /\ BodyFailed /\ OnlyMutations
    /\ atReturn[t].rows # pre[o].rows
    /\ lastOp = [kind |-> "rollback", err |-> ErrRollback]

\* C2: when the callback returned nil and the commit batch succeeded, the
\* original sheet holds exactly the rows the shadow sheet held when the
\* callback returned, keeps its title and visibility, and the shadow sheet no
\* longer exists.
C2_CommitInstallsShadow ==
    (pc = "done" /\ Began /\ bodyRet = NoErr /\ ret = NoErr)
        => /\ sheets[o] = [pre[o] EXCEPT !.rows = atReturn[t].rows]
           /\ ~sheets[t].exists
           /\ snap.tempSheetName \notin Titles(sheets)

\* C2 witness: the callback ran Delete and Insert.Into("A").Values("x") on a
\* sheet that held two columns; the original holds header [A] and row [x].
C2_Witness ==
    /\ pc = "done" /\ bodyRet = NoErr /\ ret = NoErr
    /\ pre[o].rows = << <<"A", "B">>, <<"y", "x">> >>
    /\ sheets[o].rows = << <<"A">>, <<"x">> >>

\* C3: a sheet other than the shadow sheet changes in one kind of step only:
\* a commit batch that succeeds, which takes the original sheet from the rows
\* it had at begin to the rows of the shadow sheet and deletes the shadow
\* sheet in the same step; until then the original sheet is what it was at
\* begin.
C3_Step ==
    \A i \in SheetIds :
        (sheets[i].exists /\ i # t /\ sheets'[i] # sheets[i])
            => /\ i = o
               /\ term = "open" /\ term' = "committed"
               /\ sheets[i] = pre[i]
               /\ sheets'[i] = [sheets[i] EXCEPT !.rows = sheets[t].rows]
               /\ ~sheets'[t].exists

C3_State == (Began /\ term # "committed") => sheets[o] = pre[o]

C3_OnlyCommitChangesOriginal == [](C3_State) /\ [][C3_Step]_vars

\* C3 witness: the callback rewrote the shadow sheet in two operations or more
\* and the commit batch installed it.
C3_Witness ==
    /\ pc = "done" /\ term = "committed" /\ nOps >= 2
    /\ sheets[o].rows # pre[o].rows
    /\ lastOp = [kind |-> "commit", err |-> NoErr]

\* C4 as stated: when the callback returned nil and the commit batch failed,
\* WithSnapshot returns the commit error, the original sheet is what it was
\* before the call, and the shadow sheet still exists.
C4_Original ==
    (pc = "done" /\ Began /\ bodyRet = NoErr /\ ret # NoErr)
        => /\ ret = ErrCommit
           /\ sheets[o] = pre[o]
           /\ sheets[t].exists

\* C4 amended: the same, for a callback that did not itself commit or roll
\* back the snapshot (the snapshot is still open when the commit batch
\* fails).
C4_FailedCommitLeavesAll ==
    (pc = "done" /\ Began /\ bodyRet = NoErr /\ ret # NoErr /\ term = "open")
        => /\ ret = ErrCommit
           /\ sheets[o] = pre[o]
           /\ sheets[t].exists
           /\ sheets[t].title = snap.tempSheetName
           /\ sheets = atReturn

\* C4 witness: the callback rewrote the shadow sheet, returned nil, and the
\* commit batch failed.
C4_Witness ==
    /\ pc = "done" /\ bodyRet = NoErr /\ ret = ErrCommit /\ term = "open"
    /\ sheets[t].rows # pre[o].rows

\* C5: when the callback returned an error, WithSnapshot returns that error,
\* also when the rollback batch failed.
C5_ReturnsBodyError == (pc = "done" /\ BodyFailed) => ret = bodyRet

\* C5 witness: the callback returned its own error and the rollback batch
\* failed with another one.
C5_Witness ==
    /\ pc = "done" /\ bodyRet = ErrBody
    /\ lastOp = [kind |-> "rollback", err |-> ErrRollback]

\* C6: when begin fails, WithSnapshot returns the error (Unknown sheet when no
\* sheet has the name), the callback was not invoked, no commit or rollback
\* was issued and the spreadsheet is what it was; and begin does fail when no
\* sheet has the name, or when the id or the name drawn for the shadow sheet
\* is taken.
C6_FailedBeginDoesNothing ==
    /\ (pc = "done" /\ ~Began)
           => /\ ret \in {ErrUnknownSheet, ErrFind, ErrCreate}
              /\ bodyRet = "none"
              /\ lastOp = NoOp
              /\ \A i \in 1..Len(log) : log[i] = "snapshot"
              /\ sheets = pre
    /\ (pc # "idle" /\ snap.originalSheetName \notin Titles(pre))
           => (~Began /\ pc = "done" /\ ret \in {ErrUnknownSheet, ErrFind})
    /\ (pc # "idle" /\ (pre[t].exists \/ snap.tempSheetName \in Titles(pre)))
           => (~Began /\ pc = "done")

\* C6 witness: WithSnapshot was called on a sheet name that does not exist.
C6_Witness ==
    /\ pc = "done" /\ ret = ErrUnknownSheet
    /\ snap.originalSheetName \notin Titles(pre)

\* the operations of a call in the order WithSnapshot prescribes: the
\* snapshot batch, the callback's operations, at most one terminal batch
InOrder ==
    /\ log[1] = "snapshot"
    /\ \A i \in 2..Len(log) :
          \/ log[i] \in BodyOps
          \/ i = Len(log) /\ log[i] \in {"commit", "rollback"}
Terminals == {i \in 1..Len(log) : log[i] \in {"commit", "rollback"}}

\* C7 as stated: for every call whose begin succeeded the operations are the
\* snapshot batch, the callback's operations, then exactly one terminal batch
\* once the callback is over: Commit if and only if it returned nil,
\* otherwise Rollback; none before the callback returned.
C7_Original ==
    Began =>
        /\ InOrder
        /\ (Terminals # {} => bodyRet # "none")
        /\ \A i \in Terminals : log[i] = "commit" <=> bodyRet = NoErr
        /\ pc \in {"done", "panic"} => Cardinality(Terminals) = 1

\* C8: once a Commit or a Rollback has succeeded on the snapshot, every
\* further operation issued through it (by the callback or by WithSnapshot)
\* fails, changes no sheet and leaves the snapshot in its terminal state.
C8_Step ==
    /\ (term \in {"committed", "rolledback"} /\ Issued)
           => /\ lastOp'.err \notin {NoErr, "panic"}
              /\ sheets' = sheets
    /\ term \in {"committed", "rolledback"} => term' = term

C8_NoReuseAfterTerminal == [][C8_Step]_vars

\* C8 witness: the callback committed the snapshot itself and returned nil;
\* the Commit of WithSnapshot then failed and changed nothing.
C8_Witness ==
    /\ pc = "done" /\ term = "committed" /\ bodyRet = NoErr
    /\ ret = ErrCommit
    /\ sheets = atReturn

\* C9: an Insert step keeps every column name of the header at its index,
\* puts the names it adds beyond the previous column count, and leaves the
\* data rows written before in place.
C9_Step ==
    (Issued /\ lastOp'.kind = "insert") =>
        \A i \in SheetIds :
            (sheets[i].exists /\ sheets'[i].exists) =>
                /\ KeepsIndices(Header(sheets, i), Header(sheets', i))
                /\ AppendedOnly(Header(sheets, i), Header(sheets', i))
                /\ Len(DataRows(sheets', i)) >= Len(DataRows(sheets, i))
                /\ SubSeq(DataRows(sheets', i), 1, Len(DataRows(sheets, i))) = DataRows(sheets, i)

C9_EnsureKeepsIndices == [][C9_Step]_vars

\* C9 witness: header [A] with row [x] was widened by an insert into B: A
\* stays at index 0, B is at index 1, x is still under A.
C9_Witness ==
    /\ pc = "body" /\ lastOp = [kind |-> "insert", err |-> NoErr]
    /\ sheets[t].rows = << <<"A", "B">>, <<"x">>, <<Empty, "y">> >>

\* C10 as stated: no operation on a sheet moves or removes a column name of
\* its header.
C10_Original ==
    [][\A i \in SheetIds :
          (Issued /\ lastOp'.kind \in {"insert", "delete", "sort"}
             /\ sheets[i].exists /\ sheets'[i].exists)
              => KeepsIndices(Header(sheets, i), Header(sheets', i))]_vars

\* C10 amended: Insert and Sort never move or remove a column name of the
\* header; a Delete that succeeds removes the whole header (the next Insert
\* assigns the indices anew, in its own field order).
C10_Step ==
    \A i \in SheetIds :
        (Issued /\ sheets[i].exists /\ sheets'[i].exists) =>
            /\ lastOp'.kind \in {"insert", "sort"}
                   => KeepsIndices(Header(sheets, i), Header(sheets', i))
            /\ (lastOp'.kind = "delete" /\ lastOp'.err = NoErr /\ i = t)
                   => Header(sheets', i) = <<>>

C10_InsertSortKeepHeader == [][C10_Step]_vars

\* C10 witness: a Sort on a sheet with header [A, B] has put row [x, y]
\* before row [y, x]; the header is in place.
C10_Witness ==
    /\ pc = "body" /\ lastOp = [kind |-> "sort", err |-> NoErr]
    /\ sheets[t].rows = << <<"A", "B">>, <<"x", "y">>, <<"y", "x">> >>
    /\ atReturn = pre

\* --------------------------------------------- claims on the client calls
\* the id of the sheet the latest call addressed, in the spreadsheet it ran on
qs == findSheetId(pre, call.sheet)
\* the latest call ran on a sheet that exists and no backend call failed
BackendOk == call.fail = "none" /\ qs # NotFound
\* some accumulated row of the latest Insert has not one value per field
Mismatched == \E i \in 1..Len(call.values) : Len(call.values[i]) # Len(call.fields)
HasWrite(calls) == \E i \in 1..Len(calls) : calls[i] \in WriteCalls

\* C11 as stated (for a field list that is not empty and a backend that
\* answers every call): an Insert.Do with a row whose value count is not the
\* field count returns the mismatch error before any backend call, and the
\* sheet, header included, is unchanged.
C11_Original ==
    (call.op = "insert" /\ BackendOk /\ Len(call.fields) >= 1 /\ Mismatched)
        => /\ call.err = ErrMismatch
           /\ call.calls = <<>>
           /\ sheets = pre

\* C12 as stated (for a backend that answers every call): an Insert.Do with
\* one row or more returns the mismatch error whenever a row has not one value
\* per declared field, for every field list, the empty one included; it
\* returns nil only if every row has exactly one value per field.
C12_Original ==
    (call.op = "insert" /\ BackendOk /\ Len(call.values) >= 1)
        => /\ Mismatched => call.err = ErrMismatch
           /\ call.err = NoErr => ~Mismatched

\* C13 as stated: an Insert.Do that returns an error leaves the header row and
\* the data rows of the sheet as they were; one that returns nil for n >= 1
\* rows and a field list that is not empty has appended its n rows by a
\* single batch.
C13_Original ==
    call.op = "insert"
        => /\ call.err # NoErr => sheets = pre
           /\ (call.err = NoErr /\ Len(call.values) >= 1 /\ Len(call.fields) >= 1)
                  => /\ Len(sheets[qs].rows) = Max(Len(pre[qs].rows), 1) + Len(call.values)
                     /\ Cardinality({i \in 1..Len(call.calls) : call.calls[i] = CallAppend}) = 1

\* C14: an Insert.Do with no accumulated row issues no backend call at all
\* (no header write, no append) and leaves the spreadsheet as it was, for
\* every field list, fields the header does not have included.
C14_ZeroRowsNoWrite ==
    (call.op = "insert" /\ call.values = <<>>)
        => /\ ~HasWrite(call.calls)
           /\ call.calls = <<>>
           /\ sheets = pre

\* C14 witness: Insert.Into("A").Do() without a row on a sheet whose first row
\* is empty.
C14_Witness ==
    /\ call.op = "insert" /\ call.values = <<>> /\ call.fields = <<"A">>
    /\ BackendOk
    /\ pre[qs].rows = <<>>
    /\ sheets[qs].rows = <<>>

\* C15 as stated (for a sheet lookup the backend answers): an Insert.Do with
\* no accumulated row returns nil, for every field list and every sheet name.
C15_Original ==
    (call.op = "insert" /\ call.values = <<>> /\ call.fail = "none")
        => call.err = NoErr

\* the keys of the latest Sort that are no column name of the header the
\* sheet had
UnknownKeys ==
    {call.columns[i] : i \in 1..Len(call.columns)} \ NamesOf(Header(pre, qs))

\* C16 as stated (for a sheet with a header and a backend that answers every
\* call): a Sort.Do with a key that is no column name of the header returns
\* an error, issues no sort request, and the rows keep their order.
C16_Original ==
    (call.op = "sort" /\ BackendOk /\ Header(pre, qs) # <<>> /\ UnknownKeys # {})
        => /\ call.err # NoErr
           /\ \A i \in 1..Len(call.calls) : call.calls[i] # CallSort
           /\ sheets = pre

\* the 0-based index the header gives a column name (the last cell with it)
KeyIndex(header, name) ==
    (CHOOSE i \in 1..Len(header) :
        header[i] = name /\ \A j \in 1..Len(header) : header[j] = name => j <= i) - 1

\* row a comes strictly before row b in ascending order of the keys, the
\* first key first and each later key among rows equal in the earlier ones
Before(a, b, header, keys) ==
    \E m \in 1..Len(keys) :
        /\ \A l \in 1..(m - 1) :
              Rank(CellAt(a, KeyIndex(header, keys[l]))) = Rank(CellAt(b, KeyIndex(header, keys[l])))
        /\ Rank(CellAt(a, KeyIndex(header, keys[m]))) < Rank(CellAt(b, KeyIndex(header, keys[m])))

Count(rows, r) == Cardinality({i \in 1..Len(rows) : rows[i] = r})

\* C17: a Sort.Do with one key or more, all of them column names of the
\* header, issues one sort request after the row-1 read, returns nil, leaves
\* row 1 and every other sheet as they were, and leaves rows 2..N the same
\* rows in ascending order of the keys at their header indices, the first
\* key primary and each later key ordering the rows equal in the earlier.
C17_SortOrdersDataRows ==
    (call.op = "sort" /\ BackendOk /\ Len(call.columns) >= 1 /\ UnknownKeys = {})
        => /\ call.err = NoErr /\ ~call.panic
           /\ call.calls = <<CallGet, CallSort>>
           /\ Header(sheets, qs) = Header(pre, qs)
           /\ \A i \in SheetIds : i # qs => sheets[i] = pre[i]
           /\ Len(DataRows(sheets, qs)) = Len(DataRows(pre, qs))
           /\ \A i \in 1..Len(DataRows(pre, qs)) :
                 Count(DataRows(sheets, qs), DataRows(pre, qs)[i])
                     = Count(DataRows(pre, qs), DataRows(pre, qs)[i])
           /\ \A i, j \in 1..Len(DataRows(sheets, qs)) :
                 i < j => ~Before(DataRows(sheets, qs)[j], DataRows(sheets, qs)[i],
                                  Header(pre, qs), call.columns)

\* C17 witness: Sort.By("B", "A") on header [A, B] with rows [y, x], [x, x]:
\* the rows are equal in B and A puts [x, x] first.
C17_Witness ==
    /\ call.op = "sort" /\ call.columns = <<"B", "A">> /\ call.err = NoErr
    /\ pre[qs].rows = << <<"A", "B">>, <<"y", "x">>, <<"x", "x">> >>
    /\ sheets[qs].rows = << <<"A", "B">>, <<"x", "x">>, <<"y", "x">> >>

\* C18: a Delete.Do that succeeds has issued one backend call, the sheet has
\* no cell value left (row 1 included) and keeps its title, every other sheet
\* is as it was, and loadSchema on it returns the nil mapping; a Delete.Do on
\* a sheet that exists succeeds when the backend answers, on an empty sheet
\* too, and a second Delete changes nothing more.
C18_DeleteClearsAll ==
    /\ (call.op = "delete" /\ BackendOk) => call.err = NoErr
    /\ (call.op = "delete" /\ call.err = NoErr)
           => /\ call.calls = <<CallClear>>
              /\ sheets = [pre EXCEPT ![qs].rows = <<>>]
              /\ loadSchema(ValuesGetFirstRow(sheets, qs)) = [err |-> NoErr, mapping |-> NilMapping]
              /\ pre[qs].rows = <<>> => sheets = pre
              /\ DeleteDo(sheets, call.sheet, "none").err = NoErr
              /\ DeleteDo(sheets, call.sheet, "none").sheets = sheets

\* C18 witness: a second Delete on the sheet a first Delete has emptied (the
\* sheet held rows before: it had left a shadow sheet behind).
C18_Witness ==
    /\ call.op = "delete" /\ call.err = NoErr /\ call.n = 2
    /\ sheets[0].exists
    /\ pre[qs].rows = <<>>
    /\ sheets[qs].rows = <<>>

\* C19: loadSchema on an answer of the row-1 read with no row, or with a
\* first row of no cell, returns the nil mapping and the nil error whenever
\* the read itself succeeded.
C19_EmptyRowIsAbsent ==
    (call.op = "resolve" /\ call.fail = "none"
       /\ (Len(call.arg) = 0 \/ Len(call.arg[1]) = 0))
        => /\ call.err = NoErr
           /\ call.out = NilMapping

\* C19 witness: the answer held one row without a cell.
C19_Witness ==
    /\ call.op = "resolve" /\ call.fail = "none"
    /\ call.arg = << <<>> >>
    /\ call.err = NoErr

\* C20: formatCellData returns a CellData for every value: for a Cell with
\* link and text the formula =HYPERLINK("link";"text"), with a link and no
\* text the formula =HYPERLINK("link"), without a link the string value Text;
\* for nil neither a value nor a colour; and a Cell's colour, when it has one,
\* is the background colour of the format in each of the three cases.
C20_EncodeCell ==
    call.op = "encode" =>
        LET v == call.arg
            cd == call.out
        IN /\ v.type = "nil" => cd = CellData("", "", NoColor)
           /\ (v.type = "Cell" /\ v.Hyperlink # "" /\ v.Text # "")
                  => /\ cd.FormulaValue
                          = "=HYPERLINK(\"" \o v.Hyperlink \o "\";\"" \o v.Text \o "\")"
                     /\ cd.StringValue = ""
           /\ (v.type = "Cell" /\ v.Hyperlink # "" /\ v.Text = "")
                  => /\ cd.FormulaValue = "=HYPERLINK(\"" \o v.Hyperlink \o "\")"
                     /\ cd.StringValue = ""
           /\ (v.type = "Cell" /\ v.Hyperlink = "")
                  => /\ cd.StringValue = v.Text
                     /\ cd.FormulaValue = ""
           /\ v.type = "Cell" => cd.BackgroundColor = v.BackgroundColor

\* C20 witness: a red Cell with link and text became a labelled hyperlink
\* formula with the red background.
C20_Witness ==
    /\ call.op = "encode"
    /\ call.arg = Cell("failed", "http://mr/1", "LightRed")
    /\ call.out.FormulaValue = "=HYPERLINK(\"http://mr/1\";\"failed\")"
    /\ call.out.BackgroundColor = "LightRed"

\* the names of fields the header does not hold, each once, in the order given
RECURSIVE NewNames(_, _)
NewNames(have, fields) ==
    IF fields = <<>> THEN <<>>
    ELSE IF Head(fields) \in have THEN NewNames(have, Tail(fields))
    ELSE <<Head(fields)>> \o NewNames(have \cup {Head(fields)}, Tail(fields))

CellsOf(header) == {header[k] : k \in 1..Len(header)}
Updates(calls) == Cardinality({i \in 1..Len(calls) : calls[i] = CallUpdate})

\* C21: an Insert.Do with a row, on a sheet that has a header, writes the
\* header if and only if a declared field is not in it: with every field
\* present there is no header write and the header is as it was; otherwise
\* the missing fields follow the old header in the order given, from the
\* previous column count on, and the header is written once.
C21_WidenWritesOnce ==
    (call.op = "insert" /\ BackendOk /\ Len(call.values) >= 1 /\ Header(pre, qs) # <<>>)
        => LET old == Header(pre, qs)
               new == NewNames(CellsOf(old), call.fields)
           IN /\ Updates(call.calls) = (IF new = <<>> THEN 0 ELSE 1)
              /\ Header(sheets, qs) = old \o new
              /\ \A k \in 1..Len(new) :
                    KeyIndex(Header(sheets, qs), new[k]) = Len(old) + k - 1

\* C21 witness: header [A, B] and Insert.Into("A", "B", "C"): C is at index 2
\* and the header is [A, B, C].
C21_Witness ==
    /\ call.op = "insert" /\ call.fields = <<"A", "B", "C">> /\ call.err = NoErr
    /\ Header(pre, qs) = <<"A", "B">>
    /\ Header(sheets, qs) = <<"A", "B", "C">>
    /\ KeyIndex(Header(sheets, qs), "C") = 2
    /\ Updates(call.calls) = 1

\* C22 as stated (for a backend that answers every call): an Insert.Do with
\* a row and a field or more, on a sheet whose first row is empty, fails with
\* the mapping error whenever the number of distinct names assigned is not
\* the number of fields requested; when its getSchema succeeded the header
\* holds the requested fields, one distinct name at each index, in the order
\* given.
C22_Original ==
    (call.op = "insert" /\ BackendOk /\ Len(call.values) >= 1 /\ Len(call.fields) >= 1
       /\ Header(pre, qs) = <<>>)
        => /\ Cardinality(CellsOf(call.fields)) # Len(call.fields) => call.err = ErrMapColumns
           /\ call.err \in {NoErr, ErrMismatch}
                  => /\ Header(sheets, qs) = call.fields
                     /\ Cardinality(CellsOf(Header(sheets, qs))) = Len(call.fields)

Written(v) == IF v = Nil THEN Empty ELSE v
\* the positions of a field in the field list
Occurrences(fields, name) == {j \in 1..Len(fields) : fields[j] = name}
Last(js) == CHOOSE j \in js : \A j2 \in js : j2 <= j

LoopPositions ==
    {"iter", "group", "tx.begin", "tx.delete", "tx.insert", "tx.sort", "tx.end", "sleep"}

\* the poll loop was entered: run finished its setup
InLoop == pc \notin {"idle", "fatal"}

\* C25 as stated: the poll loop never exits: once run has entered the loop,
\* the process is inside an iteration or asleep before the next one, whatever
\* the outcome of the iterations so far; no iteration terminates the process.
C25_Original == InLoop => pc \in LoopPositions

\* ---- claims on the shadow sheet's identifier (specification Spec) ----

\* the requests of the snapshot that name the shadow sheet address the id tid:
\* duplicate (new sheet id), hide, copy-paste (source), delete-sheet
AddressShadow(s, tid) ==
    /\ SnapshotRequests(s)[1].op = "duplicateSheet" /\ SnapshotRequests(s)[1].id = tid
    /\ SnapshotRequests(s)[2].op = "hide" /\ SnapshotRequests(s)[2].id = tid
    /\ CommitRequests(s)[2].op = "copyPaste" /\ CommitRequests(s)[2].src = tid
    /\ CommitRequests(s)[3].op = "deleteSheet" /\ CommitRequests(s)[3].id = tid
    /\ RollbackRequests(s)[1].op = "deleteSheet" /\ RollbackRequests(s)[1].id = tid

\* C26 as stated: the identifier Snapshot generates for the shadow sheet is a
\* strictly positive integer (never 0), and the duplicate, hide, copy-paste
\* source and delete-sheet requests of the snapshot all address that same
\* identifier.
C26_Original ==
    Began => /\ snap.tempSheetId > 0
             /\ AddressShadow(snap, snap.tempSheetId)

\* ---- claims on Sort.Do inside a snapshot (specification Spec) ----

\* C27 as stated: Sort.Do always returns to its caller, with success or with
\* an error value, for every sheet state and every key list; the process is
\* never aborted in it, so that WithSnapshot goes on to its terminal batch.
C27_Original ==
    lastOp.kind = "sort" => /\ lastOp.err # "panic"
                            /\ pc # "panic"

\* ---- claims on the header an Insert leaves (specification SpecQuery) ----

\* the name -> index pairs and the column count of a mapping
Pairs(m) == {<<n, m.columnToIndex[n]>> : n \in DOMAIN m.columnToIndex}

\* every cell of the header holds a name, and no name twice
Injective(header) ==
    /\ \A k \in 1..Len(header) : header[k] # Empty
    /\ \A k1, k2 \in 1..Len(header) : header[k1] = header[k2] => k1 = k2

\* C28 as stated: after a successful Insert.Do with at least one row, reading
\* the schema back from the sheet gives the name -> index pairs and the column
\* count of the mapping getSchema used to place the values, and every index of
\* the header holds one distinct, non-empty column name.
C28_Original ==
    (call.op = "insert" /\ call.err = NoErr /\ Len(call.values) >= 1 /\ Len(call.fields) >= 1)
        => LET used == getSchema(pre, qs, call.fields, "none").mapping
               back == loadSchema(ValuesGetFirstRow(sheets, qs))
           IN /\ back.err = NoErr
              /\ Pairs(back.mapping) = Pairs(used)
              /\ back.mapping.numColumns = used.numColumns
              /\ Injective(Header(sheets, qs))

====
